---- MODULE Spec2Model ----
(***************************************************************************)
(* Model of the real-time streaming session of the LiveSession component   *)
(* (src/components/LiveSession.tsx): the React state of the component, its *)
(* refs, the closures that startSession hands to the remote channel, the   *)
(* playback scheduler kept in those closures, the transcript aggregation,  *)
(* the device toggles and the teardown in stopSession.                     *)
(*                                                                         *)
(* Times are in tenths of a second.  Text is a sequence of letters, so     *)
(* that string concatenation is \o.                                        *)
(***************************************************************************)
EXTENDS Integers, Sequences, FiniteSets, TLC

\* ---- bounds of the model ------------------------------------------------
MaxSessions == 2      \* startSession calls in one behaviour
MaxClock    == 3      \* last value of the output audio clock
MaxChunks   == 2      \* audio chunks received in one behaviour
MaxMsgs     == 3      \* messages received in one behaviour
MaxRequests == 2      \* device-permission requests in one behaviour
MaxImages   == 2      \* images shared from the chat in one behaviour
MaxFrames   == 1      \* video frames grabbed in one behaviour

Durations == {1, 2}           \* durations of decoded audio buffers
Letters   == {"a", "b"}       \* transcript deltas are one letter long
Deltas    == {<<l>> : l \in Letters}
NoText    == <<>>             \* the message carries no such transcription

Channels == 1..MaxSessions
Images   == 1..MaxImages

\* ---- values ---------------------------------------------------------------
EmptyTurn == [user |-> <<>>, model |-> <<>>]

NoChannel == [st |-> "none", capActive |-> FALSE, capSpoken |-> EmptyTurn,
              capLog |-> <<>>, nextStartTime |-> 0, sources |-> {}]

Max(a, b) == IF a >= b THEN a ELSE b

VARIABLES
    apiKey,             \* process.env.API_KEY is set
    isSessionActive, isMicOn, isCameraOn, isScreenOn, isAnnotating,
    status,
    transcription,      \* TranscriptLog: sequence of turns
    currentSpokenText,  \* TurnBuffer
    sessionPromiseRef,  \* 0 (null) or the channel whose promise it holds
    chan,               \* per startSession call: channel state and closure
    nchan,              \* startSession calls so far
    clock,              \* outputAudioContext.currentTime
    decodes,            \* onmessage handlers suspended in decodeAudioData
    playing,            \* started audio nodes whose 'ended' event is due
    nmsg,               \* messages received so far
    narrived,           \* audio chunks received so far
    lastSched,          \* per channel: chunks started since the last
                        \* interruption, in the order of source.start
    mounted,            \* the LiveSession component is mounted
    activeFeature,      \* App.activeFeature
    summaries,          \* App.summaries: records delivered by onSessionEnd
    stops,              \* stopSession calls suspended in an await
    nstops,             \* stopSession calls so far
    mediaStreamRef, frameIntervalRef,       \* 0 (null) or the id held
    audioContextRef, scriptProcessorRef,    \* 0 (null) or the id held
    visualTracks,       \* camera/screen streams whose tracks are live
    timers,             \* frame-grab intervals that are running
    micTracks,          \* microphone streams whose tracks are live
    processors,         \* connected script processors
    requests,           \* getUserMedia/getDisplayMedia calls in flight
    nreq,               \* device requests so far
    recv,               \* per channel: deltas delivered since the last
                        \* TurnComplete, concatenated per speaker
    sharedImage,        \* AppContext.sharedImage: 0 (null) or the image held
    nshared,            \* images placed in the slot so far
    imageDeps,          \* the sharedImage that the effect of line 43 saw last
    imageSends,         \* per image: sendRealtimeInput calls that carried it
    thens,              \* .then callbacks waiting for a session promise
    frames,             \* grabbed frames whose encoding is in flight
    nframes,            \* frames grabbed so far
    unhandled,          \* an unhandled promise rejection has occurred
    ev                  \* the handler that ran last, with its inputs

vars == <<apiKey, isSessionActive, isMicOn, isCameraOn, isScreenOn,
          isAnnotating, status, transcription, currentSpokenText,
          sessionPromiseRef, chan, nchan, clock, decodes, playing,
          nmsg, narrived, lastSched, mounted, activeFeature, summaries, stops,
          nstops, mediaStreamRef, frameIntervalRef, audioContextRef,
          scriptProcessorRef, visualTracks, timers, micTracks, processors,
          requests, nreq, recv, sharedImage, nshared, imageDeps, imageSends,
          thens,
          frames, nframes, unhandled, ev>>

audioVars  == <<clock, decodes, playing, nmsg, narrived, lastSched>>
textVars   == <<transcription, currentSpokenText, recv>>
flagVars   == <<isSessionActive, isMicOn, isCameraOn, isScreenOn,
                isAnnotating>>
appVars    == <<mounted, activeFeature, summaries>>
stopVars   == <<stops, nstops>>
visualVars == <<mediaStreamRef, frameIntervalRef, visualTracks, timers>>
micVars    == <<audioContextRef, scriptProcessorRef, micTracks, processors>>
reqVars    == <<requests, nreq>>
sendVars   == <<sharedImage, nshared, imageDeps, imageSends, thens, frames,
                nframes, unhandled>>

Init ==
    /\ apiKey \in BOOLEAN
    /\ isSessionActive = FALSE
    /\ isMicOn = FALSE
    /\ isCameraOn = FALSE
    /\ isScreenOn = FALSE
    /\ isAnnotating = FALSE
    /\ status = "Idle. Press Start to connect."
    /\ transcription = <<>>
    /\ currentSpokenText = EmptyTurn
    /\ sessionPromiseRef = 0
    /\ chan = [c \in Channels |-> NoChannel]
    /\ nchan = 0
    /\ clock = 0
    /\ decodes = {}
    /\ playing = {}
    /\ nmsg = 0
    /\ narrived = 0
    /\ lastSched = [c \in Channels |-> <<>>]
    /\ mounted = TRUE
    /\ activeFeature = "live"
    /\ summaries = <<>>
    /\ stops = {}
    /\ nstops = 0
    /\ mediaStreamRef = 0
    /\ frameIntervalRef = 0
    /\ audioContextRef = 0
    /\ scriptProcessorRef = 0
    /\ visualTracks = {}
    /\ timers = {}
    /\ micTracks = {}
    /\ processors = {}
    /\ requests = {}
    /\ nreq = 0
    /\ recv = [c \in Channels |-> EmptyTurn]
    /\ sharedImage = 0
    /\ nshared = 0
    /\ imageDeps = 0
    /\ imageSends = [i \in Images |-> 0]
    /\ thens = {}
    /\ frames = {}
    /\ nframes = 0
    /\ unhandled = FALSE
    /\ ev = [op |-> "init"]

\* ---- startSession (the Start button is rendered only while the session
\*      is not active; the callbacks close over the values of that render)
Rendered == mounted /\ activeFeature = "live"

\* a state setter of the component: without effect once it is unmounted
SetState(new, old) == IF mounted THEN new ELSE old

StartSession ==
    /\ Rendered
    /\ ~isSessionActive
    /\ IF ~apiKey
         THEN /\ status' = "API Key not found."
              /\ UNCHANGED <<sessionPromiseRef, chan, nchan>>
         ELSE /\ nchan < MaxSessions
              /\ status' = "Connecting..."
              /\ nchan' = nchan + 1
              /\ chan' = [chan EXCEPT ![nchan + 1] =
                            [st |-> "connecting",
                             capActive |-> isSessionActive,
                             capSpoken |-> currentSpokenText,
                             capLog |-> transcription,
                             nextStartTime |-> 0,
                             sources |-> {}]]
              /\ sessionPromiseRef' = nchan + 1
    /\ ev' = [op |-> "start"]
    /\ UNCHANGED <<apiKey, flagVars, textVars>>
    /\ UNCHANGED <<audioVars, appVars, stopVars, visualVars, micVars, reqVars>>
    /\ UNCHANGED sendVars

\* ---- callbacks.onopen
OnOpen(c) ==
    /\ chan[c].st = "connecting"
    /\ chan' = [chan EXCEPT ![c].st = "open"]
    /\ isSessionActive' = SetState(TRUE, isSessionActive)
    /\ status' = SetState("Connected! Enable mic to start talking.", status)
    /\ ev' = [op |-> "open", c |-> c]
    /\ UNCHANGED <<apiKey, isMicOn, isCameraOn, isScreenOn, isAnnotating,
                   textVars, sessionPromiseRef, nchan>>
    /\ UNCHANGED <<audioVars, appVars, stopVars, visualVars, micVars, reqVars>>
    /\ UNCHANGED sendVars

\* ---- the output audio clock advances
Tick ==
    /\ clock < MaxClock
    /\ clock' = clock + 1
    /\ ev' = [op |-> "tick"]
    /\ UNCHANGED <<apiKey, flagVars, status, textVars, sessionPromiseRef,
                   chan, nchan, decodes, playing, nmsg, narrived, lastSched>>
    /\ UNCHANGED <<appVars, stopVars, visualVars, micVars, reqVars>>
    /\ UNCHANGED sendVars

\* ---- callbacks.onmessage --------------------------------------------------
\* A message: out/inp are the output/input transcription texts (NoText when
\* absent), tc is turnComplete, audio is the duration of the inline audio
\* chunk (0 when absent), intr is interrupted.
Messages(outs, inps, tcs, audios, intrs) ==
    { m \in [out : outs, inp : inps, tc : tcs, audio : audios, intr : intrs] :
        m.out # NoText \/ m.inp # NoText \/ m.tc \/ m.audio # 0 \/ m.intr }

\* lines 237-242: the functional updaters of the two transcription fields
appendModelDelta(turn, text) ==
    IF text # NoText THEN [turn EXCEPT !.model = @ \o text] ELSE turn

appendUserDelta(turn, text) ==
    IF text # NoText THEN [turn EXCEPT !.user = @ \o text] ELSE turn

\* lines 243-246: turnComplete appends the currentSpokenText of the closure
commitTurn(c, log) == Append(log, chan[c].capSpoken)

\* line 250: the cursor is raised to the clock before the decode is awaited
raiseCursorToClock(cursor, now) == now

raiseCursor(cursor, now) == Max(cursor, now)

\* lines 260-266: every source of the set is stopped and deleted, cursor 0
interruptCursorKept(cursor) == cursor

interruptCursor(cursor) == 0

stopSources(c, srcs, nodes) ==
    { IF p.c = c /\ p.id \in srcs THEN [p EXCEPT !.stopped = TRUE] ELSE p :
        p \in nodes }

\* line 251: the handler is suspended until the decode of the chunk settles
decodeAudioData(c, seq, dur, intr) ==
    [c |-> c, seq |-> seq, dur |-> dur, intr |-> intr, overtaken |-> FALSE]

\* the decodes of a channel that are waiting while an interruption is handled
overtake(c, waiting) ==
    { IF d.c = c THEN [d EXCEPT !.overtaken = TRUE] ELSE d : d \in waiting }

\* line 255: the 'ended' listener deletes the node from the set
deleteSourceSkipped(srcs, id) == srcs

deleteSource(srcs, id) == srcs \ {id}

OnMessage(c, m) ==
    /\ chan[c].st = "open"
    /\ nmsg < MaxMsgs
    /\ nmsg' = nmsg + 1
    /\ m.audio # 0 => narrived < MaxChunks
    /\ LET t1 == appendModelDelta(currentSpokenText, m.out)
           t2 == appendUserDelta(t1, m.inp)
           r2 == appendUserDelta(appendModelDelta(recv[c], m.out), m.inp)
       IN  /\ currentSpokenText' =
                 SetState(IF m.tc THEN EmptyTurn ELSE t2, currentSpokenText)
           /\ transcription' =
                 SetState(IF m.tc THEN commitTurn(c, transcription)
                                  ELSE transcription, transcription)
           /\ recv' = SetState([recv EXCEPT ![c] =
                                   IF m.tc THEN EmptyTurn ELSE r2], recv)
    /\ IF m.audio # 0
         THEN /\ chan' = [chan EXCEPT ![c].nextStartTime =
                                         raiseCursor(@, clock)]
              /\ decodes' = decodes \cup
                    {decodeAudioData(c, narrived + 1, m.audio, m.intr)}
              /\ narrived' = narrived + 1
              /\ UNCHANGED <<playing, lastSched>>
         ELSE /\ IF m.intr
                   THEN /\ chan' = [chan EXCEPT
                                      ![c].sources = {},
                                      ![c].nextStartTime = interruptCursor(@)]
                        /\ playing' = stopSources(c, chan[c].sources, playing)
                        /\ lastSched' = [lastSched EXCEPT ![c] = <<>>]
                        /\ decodes' = overtake(c, decodes)
                   ELSE UNCHANGED <<chan, playing, lastSched, decodes>>
              /\ UNCHANGED narrived
    /\ ev' = [op |-> "message", c |-> c, m |-> m,
              intr |-> (m.intr /\ m.audio = 0), now |-> clock]
    /\ UNCHANGED <<apiKey, flagVars, status, sessionPromiseRef, nchan, clock>>
    /\ UNCHANGED <<appVars, stopVars, visualVars, micVars, reqVars>>
    /\ UNCHANGED sendVars

\* lines 252-259, then 260-266: the continuation of the handler after the
\* decode: the buffer is started at the cursor, the cursor moves past it and
\* the node joins the set; an interrupted flag of the same message is
\* handled after that.
startAt(cursor) == cursor

advanceCursor(start, dur) == start + dur

DecodeDone(d) ==
    /\ d \in decodes
    /\ LET c     == d.c
           start == startAt(chan[c].nextStartTime)
           node  == [c |-> c, id |-> d.seq, endAt |-> Max(start, clock) + d.dur,
                     stopped |-> FALSE]
           srcs  == chan[c].sources \cup {d.seq}
       IN  /\ decodes' = IF d.intr THEN overtake(c, decodes \ {d})
                                    ELSE decodes \ {d}
           /\ IF d.intr
                THEN /\ chan' = [chan EXCEPT
                                   ![c].sources = {},
                                   ![c].nextStartTime = interruptCursor(@)]
                     /\ playing' = stopSources(c, srcs, playing \cup {node})
                     /\ lastSched' = [lastSched EXCEPT ![c] = <<>>]
                ELSE /\ chan' = [chan EXCEPT
                                   ![c].sources = srcs,
                                   ![c].nextStartTime =
                                        advanceCursor(start, d.dur)]
                     /\ playing' = playing \cup {node}
                     /\ lastSched' = [lastSched EXCEPT ![c] =
                           Append(@, [start |-> start, dur |-> d.dur])]
           /\ ev' = [op |-> "decoded", c |-> c, id |-> d.seq, start |-> start,
                     dur |-> d.dur, intr |-> d.intr, now |-> clock,
                     overtaken |-> d.overtaken]
    /\ UNCHANGED <<apiKey, flagVars, status, textVars, sessionPromiseRef,
                   nchan, clock, nmsg, narrived>>
    /\ UNCHANGED <<appVars, stopVars, visualVars, micVars, reqVars>>
    /\ UNCHANGED sendVars

\* line 251: the decode of the chunk fails; onmessage has no try/catch, so
\* the rest of the handler (lines 252-266, the interrupted branch included)
\* does not run and the promise of the handler is rejected
DecodeFailed(d) ==
    /\ d \in decodes
    /\ decodes' = decodes \ {d}
    /\ unhandled' = TRUE
    /\ ev' = [op |-> "decodeFailed", c |-> d.c, id |-> d.seq,
              carried |-> d.intr]
    /\ UNCHANGED <<apiKey, flagVars, status, textVars, sessionPromiseRef,
                   chan, nchan, clock, playing, nmsg, narrived, lastSched>>
    /\ UNCHANGED <<appVars, stopVars, visualVars, micVars, reqVars>>
    /\ UNCHANGED <<sharedImage, nshared, imageDeps, imageSends, thens, frames,
                   nframes>>

\* line 255: the 'ended' listener of a node, fired once when the node has
\* played to its end or has been stopped
Ended(p) ==
    /\ p \in playing
    /\ p.stopped \/ clock >= p.endAt
    /\ playing' = playing \ {p}
    /\ chan' = [chan EXCEPT ![p.c].sources = deleteSource(@, p.id)]
    /\ ev' = [op |-> "ended", c |-> p.c, id |-> p.id, stopped |-> p.stopped]
    /\ UNCHANGED <<apiKey, flagVars, status, textVars, sessionPromiseRef,
                   nchan, clock, decodes, nmsg, narrived, lastSched>>
    /\ UNCHANGED <<appVars, stopVars, visualVars, micVars, reqVars>>
    /\ UNCHANGED sendVars

\* ---- stopAllStreams (lines 164-176) --------------------------------------
stopAllStreams ==
    /\ visualTracks' = visualTracks \ {mediaStreamRef}
    /\ mediaStreamRef' = 0
    /\ timers' = timers \ {frameIntervalRef}
    /\ frameIntervalRef' = 0

\* ---- stopSession (lines 178-209) -----------------------------------------
\* line 204: the partial turn is appended when either of its texts is
\* non-empty
FlushUserOnly(turn) ==
    IF turn.user # <<>> THEN <<turn>> ELSE <<>>

FlushPending(turn) ==
    IF turn.user # <<>> \/ turn.model # <<>> THEN <<turn>> ELSE <<>>

finalTranscription(log, spoken) == log \o FlushPending(spoken)

\* lines 114-162: the record that generateAndSaveSummary hands to
\* onSessionEnd, from the generated summary or, when the request failed,
\* from the raw transcript
\* lines 120 and 157: the transcript as text, one "User: ...\nGemini: ..."
\* block per turn, the blocks joined by an empty line
RECURSIVE transcriptText(_)
transcriptText(turns) ==
    IF turns = <<>> THEN <<>>
    ELSE LET t     == Head(turns)
             block == <<"User: ">> \o t.user \o <<"\nGemini: ">> \o t.model
         IN  IF Len(turns) = 1 THEN block
             ELSE block \o <<"\n\n">> \o transcriptText(Tail(turns))

SessionRecord(final, ok) ==
    IF ok THEN [title |-> "generated", content |-> <<"generated">>]
          ELSE [title |-> "Session Log (Summary Failed)",
                content |-> transcriptText(final)]

\* App.tsx lines 18-21: handleSessionEnd appends the record
handleSessionEnd(summ, record) == Append(summ, record)

\* lines 144-160: a record is handed to onSessionEnd on both branches
saveSummaryIfGenerated(summ, final, ok) ==
    IF ok THEN handleSessionEnd(summ, SessionRecord(final, ok)) ELSE summ

saveSummary(summ, final, ok) ==
    handleSessionEnd(summ, SessionRecord(final, ok))

\* lines 187-208: what stopSession does once the session promise has
\* settled.  s is the call (its closure is s.log, s.spoken), entered tells
\* whether sessionPromiseRef.current was set when the call began, chan0 is
\* the channel table the call sees.
StopTail(s, entered, chan0) ==
    LET final == finalTranscription(s.log, s.spoken)
        skip  == final = <<>> \/ ~apiKey
    IN  /\ IF entered
             THEN /\ chan' = IF chan0[s.c].st = "open"
                               THEN [chan0 EXCEPT ![s.c].st = "closing"]
                               ELSE chan0
                  /\ sessionPromiseRef' = 0
             ELSE /\ chan' = chan0
                  /\ UNCHANGED sessionPromiseRef
        /\ processors' = processors \ {scriptProcessorRef}
        /\ scriptProcessorRef' = 0
        /\ audioContextRef' = 0
        /\ UNCHANGED micTracks
        /\ IF skip
             THEN /\ transcription' = SetState(<<>>, transcription)
                  /\ currentSpokenText' = SetState(EmptyTurn, currentSpokenText)
                  /\ status' = SetState("Session ended.", status)
                  /\ stops' = stops \ {s}
             ELSE /\ status' = SetState("Generating session summary...",
                                        status)
                  /\ stops' = (stops \ {s}) \cup
                        {[s EXCEPT !.phase = "summary", !.final = final]}
                  /\ UNCHANGED <<transcription, currentSpokenText>>
        /\ ev' = [op |-> "teardown", id |-> s.id, kind |-> s.kind,
                  handed |-> final, atLog |-> s.atLog,
                  atSpoken |-> s.atSpoken, atActive |-> s.atActive,
                  done |-> skip, c |-> s.c,
                  closed |-> (entered /\ chan0[s.c].st # "failed"),
                  micAtClose |-> scriptProcessorRef,
                  visualAtClose |-> mediaStreamRef',
                  timerAtClose |-> frameIntervalRef']

\* lines 179-186: the part of stopSession that runs at once; the call then
\* waits for the session promise when that is still pending.
StopSession(log, spoken, kind, chan0, status0) ==
    LET ref == sessionPromiseRef
        s   == [id |-> nstops + 1, kind |-> kind, c |-> ref,
                log |-> log, spoken |-> spoken,
                atLog |-> transcription, atSpoken |-> currentSpokenText,
                atActive |-> isSessionActive,
                phase |-> "awaitSession", final |-> <<>>]
    IN  /\ isSessionActive' = SetState(FALSE, isSessionActive)
        /\ isMicOn' = SetState(FALSE, isMicOn)
        /\ isCameraOn' = SetState(FALSE, isCameraOn)
        /\ isScreenOn' = SetState(FALSE, isScreenOn)
        /\ isAnnotating' = SetState(FALSE, isAnnotating)
        /\ stopAllStreams
        /\ nstops' = nstops + 1
        /\ IF ref # 0 /\ chan0[ref].st = "connecting"
             THEN /\ stops' = stops \cup {s}
                  /\ chan' = chan0
                  /\ status' = SetState(status0, status)
                  /\ ev' = [op |-> "stop", id |-> s.id, kind |-> kind]
                  /\ UNCHANGED <<sessionPromiseRef, micVars, transcription,
                                 currentSpokenText>>
             ELSE StopTail(s, ref # 0, chan0)

\* the Stop button (line 450), rendered while the session is active; its
\* stopSession is the one of the current render (deps of line 209)
StopClick ==
    /\ Rendered
    /\ isSessionActive
    /\ StopSession(transcription, currentSpokenText, "button", chan, status)
    /\ UNCHANGED <<apiKey, nchan, recv, appVars, reqVars>>
    /\ UNCHANGED audioVars
    /\ UNCHANGED sendVars

\* line 189: a suspended stopSession resumes when the promise has settled
StopResume(s) ==
    /\ s \in stops
    /\ s.phase = "awaitSession"
    /\ chan[s.c].st # "connecting"
    /\ UNCHANGED visualVars
    /\ StopTail(s, TRUE, chan)
    /\ UNCHANGED <<apiKey, flagVars, nchan, recv, appVars, reqVars, nstops>>
    /\ UNCHANGED audioVars
    /\ UNCHANGED sendVars

\* lines 128-161 and 206-208, App.tsx 18-21: the summarization request
\* settles; a record is handed to onSessionEnd, which shows the summaries
\* feature; then the transcript state is reset.
SummaryDone(s, ok) ==
    /\ s \in stops
    /\ s.phase = "summary"
    /\ summaries' = saveSummary(summaries, s.final, ok)
    /\ activeFeature' = "summaries"
    /\ transcription' = SetState(<<>>, transcription)
    /\ currentSpokenText' = SetState(EmptyTurn, currentSpokenText)
    /\ status' = SetState("Session ended.", status)
    /\ stops' = stops \ {s}
    /\ ev' = [op |-> "summaryDone", id |-> s.id, ok |-> ok,
              final |-> s.final]
    /\ UNCHANGED <<apiKey, flagVars, sessionPromiseRef, chan, nchan, recv,
                   mounted, nstops, visualVars, micVars, reqVars>>
    /\ UNCHANGED audioVars
    /\ UNCHANGED sendVars

\* lines 268-271: callbacks.onclose, when the remote closes the channel or
\* when a local close has completed; isSessionActive and stopSession are
\* those of the render in which startSession was called.
OnClose(c) ==
    /\ chan[c].st \in {"open", "closing"}
    /\ LET chan1 == [chan EXCEPT ![c].st = "closed"]
       IN  IF chan[c].capActive
             THEN StopSession(chan[c].capLog, chan[c].capSpoken, "onclose",
                              chan1, "Connection closed.")
             ELSE /\ chan' = chan1
                  /\ status' = SetState("Connection closed.", status)
                  /\ ev' = [op |-> "close", c |-> c,
                            remote |-> (chan[c].st = "open")]
                  /\ UNCHANGED <<flagVars, transcription, currentSpokenText,
                                 sessionPromiseRef, stopVars, visualVars,
                                 micVars>>
    /\ UNCHANGED <<apiKey, nchan, recv, appVars, reqVars>>
    /\ UNCHANGED audioVars
    /\ UNCHANGED sendVars

\* SideNav: the user leaves the live feature
Navigate ==
    /\ Rendered
    /\ activeFeature' = "image-gen"
    /\ ev' = [op |-> "navigate"]
    /\ UNCHANGED <<apiKey, flagVars, status, textVars, sessionPromiseRef,
                   chan, nchan, mounted, summaries, stopVars, visualVars,
                   micVars, reqVars>>
    /\ UNCHANGED audioVars
    /\ UNCHANGED sendVars

\* lines 19-20 and 37-41: the effect has no dependencies, so its cleanup
\* holds the stopSession of the first render, whose closure has the initial
\* transcription and currentSpokenText
firstRenderTranscription == <<>>

latestSpokenText == currentSpokenText

firstRenderSpokenText == EmptyTurn

\* lines 37-41, App.tsx 23-36: LiveSession is unmounted once another
\* feature is shown; the cleanup calls the stopSession of the first render
Unmount ==
    /\ mounted
    /\ activeFeature # "live"
    /\ mounted' = FALSE
    /\ StopSession(firstRenderTranscription, firstRenderSpokenText,
                   "unmount", chan, status)
    /\ UNCHANGED <<apiKey, nchan, recv, activeFeature, summaries, reqVars>>
    /\ UNCHANGED audioVars
    /\ UNCHANGED sendVars

TextMessages ==
    { m \in Messages(Deltas \cup {NoText}, Deltas \cup {NoText}, BOOLEAN,
                     {0}, {FALSE}) : m.out = NoText \/ m.inp = NoText }

\* React commits the render that unmounts LiveSession before the next
\* event is handled
UnmountDue == mounted /\ activeFeature # "live"

NextText ==
    \/ ~UnmountDue /\ StartSession
    \/ ~UnmountDue /\ \E c \in Channels : OnOpen(c)
    \/ ~UnmountDue /\ \E c \in Channels : \E m \in TextMessages : OnMessage(c, m)
    \/ ~UnmountDue /\ StopClick
    \/ ~UnmountDue /\ \E s \in stops : StopResume(s)
    \/ ~UnmountDue /\ \E s \in stops : \E ok \in BOOLEAN : SummaryDone(s, ok)
    \/ Unmount

SpecText == Init /\ [][NextText]_vars

\* ---- callbacks.onerror (lines 272-276) -----------------------------------
\* A failure while connecting rejects the session promise.
OnError(c) ==
    /\ chan[c].st \in {"connecting", "open"}
    /\ LET chan1 == IF chan[c].st = "connecting"
                      THEN [chan EXCEPT ![c].st = "failed"] ELSE chan
       IN  IF chan[c].capActive
             THEN StopSession(chan[c].capLog, chan[c].capSpoken, "onerror",
                              chan1, "Error")
             ELSE /\ chan' = chan1
                  /\ status' = SetState("Error", status)
                  /\ ev' = [op |-> "error", c |-> c, was |-> chan[c].st]
                  /\ UNCHANGED <<flagVars, transcription, currentSpokenText,
                                 sessionPromiseRef, stopVars, visualVars,
                                 micVars>>
    /\ UNCHANGED <<apiKey, nchan, recv, appVars, reqVars>>
    /\ UNCHANGED audioVars
    /\ UNCHANGED sendVars

\* ---- the device toggles ---------------------------------------------------
\* The toggle buttons are rendered while the session is active (line 432),
\* which is also the guard of lines 282, 367 and 378.
request(kind) == [id |-> nreq + 1, kind |-> kind]

\* lines 282, 367 and 378: a toggle returns at once unless the session is
\* active
toggleAlways(active) == TRUE

toggleAllowed(active) == active

\* lines 281-318; the branch that enables awaits getUserMedia
ToggleMicrophone ==
    /\ Rendered
    /\ IF ~toggleAllowed(isSessionActive)
         THEN UNCHANGED <<micVars, reqVars, isMicOn, status>>
         ELSE IF isMicOn
         THEN /\ processors' = processors \ {scriptProcessorRef}
              /\ scriptProcessorRef' = 0
              /\ audioContextRef' = 0
              /\ isMicOn' = FALSE
              /\ status' = "Microphone off."
              /\ UNCHANGED <<micTracks, reqVars>>
         ELSE /\ nreq < MaxRequests
              /\ requests' = requests \cup {request("mic")}
              /\ nreq' = nreq + 1
              /\ UNCHANGED <<micVars, isMicOn, status>>
    /\ ev' = [op |-> "toggle", kind |-> "mic",
              ignored |-> ~toggleAllowed(isSessionActive)]
    /\ UNCHANGED <<apiKey, isSessionActive, isCameraOn, isScreenOn,
                   isAnnotating, textVars, sessionPromiseRef, chan, nchan,
                   appVars, stopVars, visualVars>>
    /\ UNCHANGED audioVars
    /\ UNCHANGED sendVars

\* lines 366-386, with lines 320-326 of startMediaStream: the branch that
\* enables clears the other flag, stops the streams and awaits the device
ToggleVisual(kind) ==
    /\ Rendered
    /\ LET on == IF kind = "camera" THEN isCameraOn ELSE isScreenOn
       IN  IF ~toggleAllowed(isSessionActive)
             THEN UNCHANGED <<visualVars, reqVars, isCameraOn, isScreenOn>>
             ELSE IF on
             THEN /\ stopAllStreams
                  /\ isCameraOn' = IF kind = "camera" THEN FALSE ELSE isCameraOn
                  /\ isScreenOn' = IF kind = "screen" THEN FALSE ELSE isScreenOn
                  /\ UNCHANGED reqVars
             ELSE /\ nreq < MaxRequests
                  /\ stopAllStreams
                  /\ isCameraOn' = IF kind = "screen" THEN FALSE ELSE isCameraOn
                  /\ isScreenOn' = IF kind = "camera" THEN FALSE ELSE isScreenOn
                  /\ requests' = requests \cup {request(kind)}
                  /\ nreq' = nreq + 1
    /\ ev' = [op |-> "toggle", kind |-> kind,
              ignored |-> ~toggleAllowed(isSessionActive)]
    /\ UNCHANGED <<apiKey, isSessionActive, isMicOn, isAnnotating, status,
                   textVars, sessionPromiseRef, chan, nchan, appVars,
                   stopVars, micVars>>
    /\ UNCHANGED audioVars
    /\ UNCHANGED sendVars

\* line 443
ToggleAnnotate ==
    /\ Rendered
    /\ isSessionActive
    /\ isAnnotating' = ~isAnnotating
    /\ ev' = [op |-> "toggle", kind |-> "annotate", ignored |-> FALSE]
    /\ UNCHANGED <<apiKey, isSessionActive, isMicOn, isCameraOn, isScreenOn,
                   status, textVars, sessionPromiseRef, chan, nchan, appVars,
                   stopVars, visualVars, micVars, reqVars>>
    /\ UNCHANGED audioVars
    /\ UNCHANGED sendVars

\* lines 297-312 and 328-358: the device request is granted
Granted(r) ==
    /\ r \in requests
    /\ requests' = requests \ {r}
    /\ IF r.kind = "mic"
         THEN /\ micTracks' = micTracks \cup {r.id}
              /\ audioContextRef' = r.id
              /\ scriptProcessorRef' = r.id
              /\ processors' = processors \cup {r.id}
              /\ isMicOn' = SetState(TRUE, isMicOn)
              /\ status' = SetState("Microphone on. Start speaking!", status)
              /\ UNCHANGED <<isCameraOn, isScreenOn, visualVars>>
         ELSE /\ visualTracks' = visualTracks \cup {r.id}
              /\ mediaStreamRef' = r.id
              /\ isCameraOn' = SetState(IF r.kind = "camera" THEN TRUE
                                        ELSE isCameraOn, isCameraOn)
              /\ isScreenOn' = SetState(IF r.kind = "screen" THEN TRUE
                                        ELSE isScreenOn, isScreenOn)
              /\ IF mounted
                   THEN /\ frameIntervalRef' = r.id
                        /\ timers' = timers \cup {r.id}
                   ELSE UNCHANGED <<frameIntervalRef, timers>>
              /\ UNCHANGED <<isMicOn, status, micVars>>
    /\ ev' = [op |-> "granted", kind |-> r.kind, id |-> r.id]
    /\ UNCHANGED <<apiKey, isSessionActive, isAnnotating, textVars,
                   sessionPromiseRef, chan, nchan, appVars, stopVars, nreq>>
    /\ UNCHANGED audioVars
    /\ UNCHANGED sendVars

\* lines 313-316 and 360-363: the status that the catch block records
deniedStatus(kind) ==
    IF kind = "mic" THEN "Microphone access denied."
    ELSE IF kind = "camera" THEN "camera access denied or failed."
    ELSE "screen access denied or failed."

\* the catch block, were it to end the session
DeniedEndsSession(r) ==
    /\ r \in requests
    /\ requests' = requests \ {r}
    /\ status' = SetState(deniedStatus(r.kind), status)
    /\ isSessionActive' = FALSE
    /\ ev' = [op |-> "denied", kind |-> r.kind, id |-> r.id]
    /\ UNCHANGED <<apiKey, isMicOn, isCameraOn, isScreenOn, isAnnotating,
                   textVars, sessionPromiseRef, chan, nchan, appVars,
                   stopVars, visualVars, micVars, nreq>>
    /\ UNCHANGED audioVars
    /\ UNCHANGED sendVars

\* the device request is denied or fails
Denied(r) ==
    /\ r \in requests
    /\ requests' = requests \ {r}
    /\ status' = SetState(deniedStatus(r.kind), status)
    /\ ev' = [op |-> "denied", kind |-> r.kind, id |-> r.id]
    /\ UNCHANGED <<apiKey, flagVars, textVars, sessionPromiseRef, chan, nchan,
                   appVars, stopVars, visualVars, micVars, nreq>>
    /\ UNCHANGED audioVars
    /\ UNCHANGED sendVars

NextDevices ==
    \/ StartSession
    \/ \E c \in Channels : OnOpen(c)
    \/ ToggleMicrophone
    \/ \E kind \in {"camera", "screen"} : ToggleVisual(kind)
    \/ ToggleAnnotate
    \/ \E r \in requests : Granted(r)
    \/ \E r \in requests : Denied(r)
    \/ StopClick
    \/ \E s \in stops : StopResume(s)
    \/ \E c \in Channels : OnClose(c)
    \/ \E c \in Channels : OnError(c)

SpecDevices == Init /\ [][NextDevices]_vars

AudioMessages == Messages({NoText}, {NoText}, {FALSE}, Durations \cup {0},
                          BOOLEAN)

NextAudio ==
    \/ StartSession
    \/ \E c \in Channels : OnOpen(c)
    \/ Tick
    \/ \E c \in Channels : \E m \in AudioMessages : OnMessage(c, m)
    \/ \E d \in decodes : DecodeDone(d)
    \/ \E d \in decodes : DecodeFailed(d)
    \/ \E p \in playing : Ended(p)

SpecAudio == Init /\ [][NextAudio]_vars

\* the playback of model audio together with the Stop button
NextPlayback ==
    \/ StartSession
    \/ \E c \in Channels : OnOpen(c)
    \/ Tick
    \/ \E c \in Channels : \E m \in AudioMessages : OnMessage(c, m)
    \/ \E d \in decodes : DecodeDone(d)
    \/ \E d \in decodes : DecodeFailed(d)
    \/ \E p \in playing : Ended(p)
    \/ StopClick
    \/ \E s \in stops : StopResume(s)

SpecPlayback == Init /\ [][NextPlayback]_vars

\* ---- sends on the channel -------------------------------------------------
\* sessionPromiseRef.current.then(session => session.sendRealtimeInput(..))
\* (lines 45-49, 304-306, 351-353): the callback waits while the promise is
\* pending, never runs when it is rejected, and otherwise calls
\* sendRealtimeInput; no call has a catch.  throws tells whether a send on
\* a channel that is closing or closed throws.
sendOutcome(st, throws) ==
    CASE st = "connecting" -> "deferred"
      [] st = "failed"     -> "rejected"
      [] st = "open"       -> "sent"
      [] OTHER             -> IF throws THEN "threw" ELSE "dropped"

sendViaPromise(by, c, img, throws) ==
    LET o == sendOutcome(chan[c].st, throws)
    IN  /\ thens' = IF o = "deferred"
                      THEN thens \cup {[by |-> by, c |-> c, img |-> img]}
                      ELSE thens
        /\ imageSends' = IF img # 0 /\ o \in {"sent", "threw", "dropped"}
                           THEN [imageSends EXCEPT ![img] = @ + 1]
                           ELSE imageSends
        /\ unhandled' = (unhandled \/ o \in {"rejected", "threw"})

\* a waiting callback runs once its session promise has settled
ThenRun(t, throws) ==
    /\ t \in thens
    /\ chan[t.c].st # "connecting"
    /\ LET o == sendOutcome(chan[t.c].st, throws)
       IN  /\ thens' = thens \ {t}
           /\ imageSends' = IF t.img # 0 /\ o \in {"sent", "threw", "dropped"}
                              THEN [imageSends EXCEPT ![t.img] = @ + 1]
                              ELSE imageSends
           /\ unhandled' = (unhandled \/ o \in {"rejected", "threw"})
           /\ ev' = [op |-> "then", by |-> t.by, c |-> t.c, img |-> t.img,
                     st |-> chan[t.c].st, outcome |-> o]
    /\ UNCHANGED <<apiKey, flagVars, status, textVars, sessionPromiseRef,
                   chan, nchan, sharedImage, nshared, imageDeps, frames,
                   nframes>>
    /\ UNCHANGED <<audioVars, appVars, stopVars, visualVars, micVars, reqVars>>

\* ---- the shared image (lines 43-52) ----------------------------------------
\* FloatingChat.tsx lines 104-115: an image attached in the chat is placed
\* in the slot
ShareImage ==
    /\ nshared < MaxImages
    /\ nshared' = nshared + 1
    /\ sharedImage' = nshared + 1
    /\ ev' = [op |-> "share", img |-> nshared + 1]
    /\ UNCHANGED <<apiKey, flagVars, status, textVars, sessionPromiseRef,
                   chan, nchan, imageDeps, imageSends, thens, frames, nframes,
                   unhandled>>
    /\ UNCHANGED <<audioVars, appVars, stopVars, visualVars, micVars, reqVars>>

\* line 50: the slot after the effect has read the image for sending
slotKept(image) == image

consumeImage(image) == 0

\* lines 43-52: the effect, run after a render in which sharedImage differs
\* from the one the effect saw last (its dependencies do not include the
\* session); when the slot holds an image and a session promise exists the
\* image is sent and the slot is cleared
SharedImageEffect(throws) ==
    /\ Rendered
    /\ sharedImage # imageDeps
    /\ imageDeps' = sharedImage
    /\ IF sharedImage # 0 /\ sessionPromiseRef # 0
         THEN /\ sendViaPromise("image", sessionPromiseRef, sharedImage, throws)
              /\ sharedImage' = consumeImage(sharedImage)
         ELSE UNCHANGED <<sharedImage, imageSends, thens, unhandled>>
    /\ ev' = [op |-> "imageEffect", img |-> sharedImage,
              read |-> (sharedImage # 0 /\ sessionPromiseRef # 0)]
    /\ UNCHANGED <<apiKey, flagVars, status, textVars, sessionPromiseRef,
                   chan, nchan, nshared, frames, nframes>>
    /\ UNCHANGED <<audioVars, appVars, stopVars, visualVars, micVars, reqVars>>

\* ---- the capture callbacks -------------------------------------------------
\* lines 301-307: onaudioprocess of a connected processor encodes the block
\* and sends it through the session promise
AudioProcess(p, throws) ==
    /\ p \in processors
    /\ IF sessionPromiseRef # 0
         THEN sendViaPromise("mic", sessionPromiseRef, 0, throws)
         ELSE UNCHANGED <<imageSends, thens, unhandled>>
    /\ ev' = [op |-> "audioprocess", id |-> p,
              st |-> IF sessionPromiseRef # 0
                       THEN chan[sessionPromiseRef].st ELSE "none",
              outcome |-> IF sessionPromiseRef # 0
                            THEN sendOutcome(chan[sessionPromiseRef].st, throws)
                            ELSE "skipped"]
    /\ UNCHANGED <<apiKey, flagVars, status, textVars, sessionPromiseRef,
                   chan, nchan, sharedImage, nshared, imageDeps, frames,
                   nframes>>
    /\ UNCHANGED <<audioVars, appVars, stopVars, visualVars, micVars, reqVars>>

\* lines 340-346: the interval callback draws the frame and asks for a blob
FrameGrab(t) ==
    /\ t \in timers
    /\ nframes < MaxFrames
    /\ nframes' = nframes + 1
    /\ frames' = frames \cup {[id |-> nframes + 1, stage |-> "blob"]}
    /\ ev' = [op |-> "frameGrab", id |-> nframes + 1]
    /\ UNCHANGED <<apiKey, flagVars, status, textVars, sessionPromiseRef,
                   chan, nchan, sharedImage, nshared, imageDeps, imageSends,
                   thens, unhandled>>
    /\ UNCHANGED <<audioVars, appVars, stopVars, visualVars, micVars, reqVars>>

\* lines 346-356: the blob callback starts the reader when a session promise
\* exists
FrameBlob(f) ==
    /\ f \in frames
    /\ f.stage = "blob"
    /\ frames' = IF sessionPromiseRef # 0
                   THEN (frames \ {f}) \cup {[f EXCEPT !.stage = "read"]}
                   ELSE frames \ {f}
    /\ ev' = [op |-> "frameBlob", id |-> f.id]
    /\ UNCHANGED <<apiKey, flagVars, status, textVars, sessionPromiseRef,
                   chan, nchan, sharedImage, nshared, imageDeps, imageSends,
                   thens, nframes, unhandled>>
    /\ UNCHANGED <<audioVars, appVars, stopVars, visualVars, micVars, reqVars>>

\* lines 349-354: reader.onloadend sends the frame through the session
\* promise
FrameRead(f, throws) ==
    /\ f \in frames
    /\ f.stage = "read"
    /\ frames' = frames \ {f}
    /\ IF sessionPromiseRef # 0
         THEN sendViaPromise("frame", sessionPromiseRef, 0, throws)
         ELSE UNCHANGED <<imageSends, thens, unhandled>>
    /\ ev' = [op |-> "frameRead", id |-> f.id,
              st |-> IF sessionPromiseRef # 0
                       THEN chan[sessionPromiseRef].st ELSE "none",
              outcome |-> IF sessionPromiseRef # 0
                            THEN sendOutcome(chan[sessionPromiseRef].st, throws)
                            ELSE "skipped"]
    /\ UNCHANGED <<apiKey, flagVars, status, textVars, sessionPromiseRef,
                   chan, nchan, sharedImage, nshared, imageDeps, nframes>>
    /\ UNCHANGED <<audioVars, appVars, stopVars, visualVars, micVars, reqVars>>

NextCapture ==
    \/ StartSession
    \/ \E c \in Channels : OnOpen(c)
    \/ ToggleMicrophone
    \/ \E kind \in {"camera", "screen"} : ToggleVisual(kind)
    \/ \E r \in requests : Granted(r)
    \/ StopClick
    \/ \E s \in stops : StopResume(s)
    \/ \E c \in Channels : OnClose(c)
    \/ \E c \in Channels : OnError(c)
    \/ \E p \in processors : \E throws \in BOOLEAN : AudioProcess(p, throws)
    \/ \E t \in timers : FrameGrab(t)
    \/ \E f \in frames : FrameBlob(f)
    \/ \E f \in frames : \E throws \in BOOLEAN : FrameRead(f, throws)
    \/ \E t \in thens : \E throws \in BOOLEAN : ThenRun(t, throws)

SpecCapture == Init /\ [][NextCapture]_vars

NextImage ==
    \/ StartSession
    \/ \E c \in Channels : OnOpen(c)
    \/ ShareImage
    \/ \E throws \in BOOLEAN : SharedImageEffect(throws)
    \/ \E t \in thens : \E throws \in BOOLEAN : ThenRun(t, throws)
    \/ ToggleAnnotate
    \/ StopClick
    \/ \E s \in stops : StopResume(s)
    \/ \E c \in Channels : OnClose(c)
    \/ \E c \in Channels : OnError(c)

SpecImage == Init /\ [][NextImage]_vars

\* messages that carry one input-transcription delta and nothing else
UserDeltaMessages ==
    { m \in TextMessages : m.inp = <<"a">> /\ m.out = NoText /\ ~m.tc }

NextStops ==
    \/ ~UnmountDue /\ StartSession
    \/ ~UnmountDue /\ \E c \in Channels : OnOpen(c)
    \/ ~UnmountDue /\ \E c \in Channels : \E m \in UserDeltaMessages :
                          OnMessage(c, m)
    \/ ~UnmountDue /\ ToggleMicrophone
    \/ ~UnmountDue /\ \E r \in requests : Granted(r)
    \/ ~UnmountDue /\ StopClick
    \/ ~UnmountDue /\ \E s \in stops : StopResume(s)
    \/ ~UnmountDue /\ \E s \in stops : \E ok \in BOOLEAN : SummaryDone(s, ok)
    \/ ~UnmountDue /\ Navigate
    \/ Unmount

SpecStops == Init /\ [][NextStops]_vars

\* ---- the whole component ---------------------------------------------------
AllMessages == TextMessages \cup AudioMessages

Next ==
    \/ ~UnmountDue /\ StartSession
    \/ ~UnmountDue /\ \E c \in Channels : OnOpen(c)
    \/ ~UnmountDue /\ Tick
    \/ ~UnmountDue /\ \E c \in Channels : \E m \in AllMessages : OnMessage(c, m)
    \/ ~UnmountDue /\ \E d \in decodes : DecodeDone(d)
    \/ ~UnmountDue /\ \E d \in decodes : DecodeFailed(d)
    \/ ~UnmountDue /\ \E p \in playing : Ended(p)
    \/ ~UnmountDue /\ \E c \in Channels : OnClose(c)
    \/ ~UnmountDue /\ \E c \in Channels : OnError(c)
    \/ ~UnmountDue /\ ToggleMicrophone
    \/ ~UnmountDue /\ \E kind \in {"camera", "screen"} : ToggleVisual(kind)
    \/ ~UnmountDue /\ ToggleAnnotate
    \/ ~UnmountDue /\ \E r \in requests : Granted(r)
    \/ ~UnmountDue /\ \E r \in requests : Denied(r)
    \/ ~UnmountDue /\ StopClick
    \/ ~UnmountDue /\ \E s \in stops : StopResume(s)
    \/ ~UnmountDue /\ \E s \in stops : \E ok \in BOOLEAN : SummaryDone(s, ok)
    \/ ~UnmountDue /\ Navigate
    \/ ~UnmountDue /\ ShareImage
    \/ ~UnmountDue /\ \E throws \in BOOLEAN : SharedImageEffect(throws)
    \/ ~UnmountDue /\ \E p \in processors : \E throws \in BOOLEAN :
                          AudioProcess(p, throws)
    \/ ~UnmountDue /\ \E t \in timers : FrameGrab(t)
    \/ ~UnmountDue /\ \E f \in frames : FrameBlob(f)
    \/ ~UnmountDue /\ \E f \in frames : \E throws \in BOOLEAN :
                          FrameRead(f, throws)
    \/ ~UnmountDue /\ \E t \in thens : \E throws \in BOOLEAN :
                          ThenRun(t, throws)
    \/ Unmount

Spec == Init /\ [][Next]_vars

\* ---- the playback scheduler ----
InterruptedOn(e, c) ==
    e.op \in {"message", "decoded"} /\ e.c = c /\ e.intr

NoOverlap(sched) ==
    \A i \in 1..(Len(sched) - 1) :
        sched[i + 1].start >= sched[i].start + sched[i].dur

\* C1: the chunks started on one channel since its last interruption, in
\* the order of their source.start calls, have non-decreasing start times
\* and each starts no earlier than its predecessor's start plus its
\* predecessor's duration; and a step that handles no interruption on a
\* channel never lowers that channel's cursor.
C1_NoOverlapAndMonotoneCursor ==
    [][\A c \in Channels :
          /\ NoOverlap(lastSched'[c])
          /\ ~InterruptedOn(ev', c) =>
                chan'[c].nextStartTime >= chan[c].nextStartTime]_vars

C1_Witness ==
    \E c \in Channels :
        /\ Len(lastSched[c]) = 2
        /\ lastSched[c][2].start = lastSched[c][1].start + lastSched[c][1].dur
        /\ clock > 0

\* C2: every decoded buffer is started at max(cursor, clock at the moment
\* it is scheduled), hence never before that clock, and the cursor then is
\* that start plus the buffer's duration.
C2_StartIsMaxOfCursorAndClock ==
    ev.op = "decoded" =>
        /\ ev.start >= ev.now
        /\ ~ev.intr => chan[ev.c].nextStartTime = ev.start + ev.dur

\* C3 as stated: after an Interrupted event handled at clock time t the
\* set of sources is empty and the cursor equals t.
C3_CursorIsInterruptClock ==
    \A c \in Channels :
        InterruptedOn(ev, c) =>
            chan[c].sources = {} /\ chan[c].nextStartTime = ev.now

\* C3 amended: after an Interrupted event is handled the set of sources is
\* empty and the cursor equals 0; an 'ended' callback that fires afterwards
\* for a force-stopped node changes neither the set nor the cursor.
C3_InterruptEmptiesAndZeroes ==
    [][/\ \A c \in Channels :
             InterruptedOn(ev', c) =>
                chan'[c].sources = {} /\ chan'[c].nextStartTime = 0
       /\ (ev'.op = "ended" /\ ev'.stopped) => chan' = chan]_vars

C3_Witness ==
    /\ ev.op = "ended" /\ ev.stopped
    /\ chan[ev.c].sources = {}
    /\ clock > 0

\* ---- the transcription aggregator ----
TurnCompleteStep(e) == e.op = "message" /\ e.m.tc

\* C4: the turn that a TurnComplete appends to the log has as user text the
\* input deltas delivered on that channel since its previous TurnComplete,
\* concatenated in arrival order, and as model text the output deltas
\* likewise, however the deltas of the two speakers interleave.
C4_CommittedTurnIsConcatenation ==
    [][(mounted /\ TurnCompleteStep(ev')) =>
          transcription' = Append(transcription,
              [user  |-> recv[ev'.c].user \o ev'.m.inp,
               model |-> recv[ev'.c].model \o ev'.m.out])]_vars

\* C5: a TurnComplete appends exactly one turn to the end of the log and
\* leaves the turn buffer empty, and the appended turn is all-empty when no
\* delta preceded the TurnComplete in its session.
C5_OneTurnPerTurnComplete ==
    [][(mounted /\ TurnCompleteStep(ev')) =>
          /\ Len(transcription') = Len(transcription) + 1
          /\ SubSeq(transcription', 1, Len(transcription)) = transcription
          /\ currentSpokenText' = EmptyTurn
          /\ (recv[ev'.c] = EmptyTurn /\ ev'.m.inp = NoText
                 /\ ev'.m.out = NoText) =>
                transcription'[Len(transcription')] = EmptyTurn]_vars

C7_DenialIsLocal ==
    [][(mounted /\ ev'.op = "denied") =>
          /\ isMicOn' = isMicOn
          /\ isCameraOn' = isCameraOn
          /\ isScreenOn' = isScreenOn
          /\ isSessionActive' = isSessionActive
          /\ ev'.kind = "mic" => status' = "Microphone access denied."
          /\ ev'.kind = "camera" => status' = "camera access denied or failed."
          /\ ev'.kind = "screen" => status' = "screen access denied or failed."
      ]_vars

C7_Witness ==
    /\ ev.op = "denied" /\ ev.kind = "camera"
    /\ isSessionActive /\ isMicOn /\ ~isCameraOn /\ ~isScreenOn
    /\ status = "camera access denied or failed."

\* C8: whenever the session is not active, micEnabled, cameraEnabled,
\* screenEnabled and annotating are all false.
C8_FlagsOffUnlessActive ==
    (mounted /\ ~isSessionActive) =>
        ~isMicOn /\ ~isCameraOn /\ ~isScreenOn /\ ~isAnnotating

\* C9: cameraEnabled and screenEnabled are never both true.
C9_CameraXorScreen ==
    mounted => ~(isCameraOn /\ isScreenOn)

\* C10: once the close callback has run for a close by the remote, the
\* session is not active, every device flag is false, no capture device is
\* held and the session promise is released, as after a local stop.
C10_RemoteCloseTearsDown ==
    (mounted /\ ev.op = "close" /\ ev.remote) =>
        /\ ~isSessionActive
        /\ ~isMicOn /\ ~isCameraOn /\ ~isScreenOn /\ ~isAnnotating
        /\ visualTracks = {} /\ timers = {} /\ processors = {}
        /\ sessionPromiseRef = 0

\* ---- failures of the channel and release of the devices ----
\* C11: once the error callback has run for a failure of an open channel,
\* the session is not active, every device flag is false, no capture
\* pipeline runs, the channel is no longer open and the error status is
\* recorded.
C11_ErrorTearsDown ==
    (mounted /\ ev.op = "error" /\ ev.was = "open") =>
        /\ ~isSessionActive
        /\ ~isMicOn /\ ~isCameraOn /\ ~isScreenOn /\ ~isAnnotating
        /\ visualTracks = {} /\ timers = {} /\ processors = {}
        /\ chan[ev.c].st # "open"
        /\ status = "Error"

\* C12: when stopSession has run its teardown and no device request is in
\* flight, no microphone track and no camera or screen track is live, no
\* microphone processor is connected and no frame-grab timer runs.
C12_StopReleasesCaptureHandles ==
    (ev.op = "teardown" /\ requests = {}) =>
        /\ micTracks = {} /\ visualTracks = {}
        /\ processors = {} /\ timers = {}

\* C16: at any time at most one channel is open or being opened.
C16_AtMostOneChannel ==
    Cardinality({c \in Channels : chan[c].st \in {"connecting", "open"}}) <= 1

\* C17: when the handler of a message that carries Interrupted has run,
\* the set of sources of its channel is empty and the cursor is reset,
\* also when the message carries an audio chunk.
C17_InterruptAppliedInHandler ==
    (ev.op = "message" /\ ev.m.intr) =>
        chan[ev.c].sources = {} /\ chan[ev.c].nextStartTime = 0

\* C18: a chunk is scheduled only when no chunk that arrived before it on
\* the same channel is still waiting for its decode.
C18_ScheduledInArrivalOrder ==
    ev.op = "decoded" =>
        \A d \in decodes : d.c = ev.c => d.seq > ev.id

\* ---- the session record ----
LastRecord == summaries[Len(summaries)]

C14_SharedImageConsumedOnce ==
    [][/\ \A i \in Images : imageSends'[i] <= 1
       /\ (ev'.op = "imageEffect" /\ ev'.read) => sharedImage' = 0
       /\ \A i \in Images :
             imageSends'[i] > imageSends[i] => sharedImage' # i]_vars

C14_Witness ==
    /\ imageSends[1] = 1
    /\ sharedImage = 0 /\ imageDeps = 0
    /\ nchan = 2 /\ isSessionActive /\ isAnnotating

\* C19: the microphone block callback sends a block on the channel only
\* while micEnabled is true.
C19_NoMicSendAfterDisable ==
    (mounted /\ ev.op = "audioprocess" /\ ev.outcome = "sent") => isMicOn

\* C20: a send that a microphone or frame callback attempts on a channel
\* that is closing or closed does not fail without a handler.
C20_SendAfterCloseIsHandled ==
    (ev.op \in {"audioprocess", "frameRead"}
        /\ ev.st \in {"closing", "closed"}) => ev.outcome # "threw"

C21_DecodeFailureDropsOnlyChunk ==
    (ev.op = "decodeFailed" /\ ev.carried) =>
        chan[ev.c].sources = {} /\ chan[ev.c].nextStartTime = 0

LiveSources(c) == { p.id : p \in { q \in playing : q.c = c /\ ~q.stopped } }

\* C23: the set of sources of a channel holds exactly the nodes that were
\* started and whose 'ended' event has not fired and that were not
\* force-stopped; a node enters the set only in the step that starts it,
\* which happens once, and leaves it only when it ends by itself or when
\* an interruption is handled.
C23_SourcesAreTheLiveHandles ==
    [][\A c \in Channels :
          /\ chan'[c].sources = LiveSources(c)'
          /\ \A id \in chan'[c].sources \ chan[c].sources :
                /\ ev'.op = "decoded" /\ ev'.c = c /\ ev'.id = id
                /\ \E d \in decodes \ decodes' : d.seq = id
                /\ \A q \in playing : q.id # id
          /\ \A id \in chan[c].sources \ chan'[c].sources :
                \/ ev'.op = "ended" /\ ev'.c = c /\ ev'.id = id
                \/ InterruptedOn(ev', c)]_vars

C23_Witness ==
    /\ ev.op = "ended" /\ ~ev.stopped
    /\ Cardinality(chan[ev.c].sources) = 1
    /\ ev.id \notin chan[ev.c].sources

\* C26: no chunk is started after an interruption was handled on its
\* channel while the chunk was waiting for its decode.
C26_NoOldChunkAfterInterrupt ==
    ev.op = "decoded" => ~ev.overtaken

\* ---- the order of the teardown and the exclusive devices ----
\* C22: when stopSession closes the channel, the microphone graph, the
\* visual stream and the frame timer have already been released.
C22_DevicesOffBeforeClose ==
    (ev.op = "teardown" /\ ev.closed) =>
        ev.micAtClose = 0 /\ ev.visualAtClose = 0 /\ ev.timerAtClose = 0

\* C24: at most one camera or screen stream has live tracks and at most
\* one frame-grab timer runs.
C24_OneVisualStreamAndTimer ==
    Cardinality(visualTracks) <= 1 /\ Cardinality(timers) <= 1

\* C25: at most one microphone processor is connected.
C25_OneMicrophonePipeline ==
    Cardinality(processors) <= 1

\* C27: a microphone, camera or screen toggle invoked while the session is
\* not active changes no device flag, acquires no device, starts no timer
\* and sends nothing; and a device request is made only while the session
\* is active.
C27_TogglesNeedActiveSession ==
    [][/\ (ev'.op = "toggle" /\ ev'.kind # "annotate" /\ ~isSessionActive) =>
             /\ ev'.ignored
             /\ UNCHANGED <<flagVars, visualVars, micVars, reqVars>>
             /\ UNCHANGED <<thens, imageSends, frames>>
       /\ requests' \ requests # {} =>
             /\ isSessionActive
             /\ \E c \in Channels : chan[c].st \notin {"none", "connecting"}
      ]_vars

C27_Witness ==
    /\ ev.op = "toggle" /\ ev.kind = "camera" /\ ev.ignored
    /\ nchan = 1 /\ chan[1].st = "connecting"
    /\ requests = {} /\ visualTracks = {}

\* C28: whenever the view is rendered with a session active and an image in
\* the handoff slot, the sending of that image is still due: the image
\* effect has yet to run for it.  (Once the effect has run for an image it
\* never runs for it again, so a state where this fails is one where the
\* image stays in the slot unsent for as long as the session lasts.)
C28_SlotImageIsSentToActiveSession ==
    (Rendered /\ isSessionActive /\ sessionPromiseRef # 0 /\ sharedImage # 0)
        => sharedImage # imageDeps

\* C29: when stopSession has completed for a session, the set of sources of
\* that session is empty and none of its nodes is still playing or
\* scheduled to play.
C29_StopSilencesModelAudio ==
    (ev.op = "teardown" /\ ev.c # 0) =>
        /\ chan[ev.c].sources = {}
        /\ LiveSources(ev.c) = {}

\* C30: when the unmount cleanup has ended a session that was active with a
\* non-empty transcript (committed turns or a partial turn), the transcript
\* of that moment is handed to the summary step, from which its record is
\* delivered.
C30_UnmountStillDeliversRecord ==
    (/\ ev.op = "teardown" /\ ev.kind = "unmount"
     /\ ev.atActive
     /\ (ev.atLog # <<>> \/ ev.atSpoken # EmptyTurn)) =>
        /\ ~ev.done
        /\ ev.handed = finalTranscription(ev.atLog, ev.atSpoken)
        /\ \E s \in stops : s.id = ev.id /\ s.phase = "summary"
====
